---- MODULE Spec2Model ----
\* Value chain of src/with_value.rs: WithValue<V, C> nodes that hold one typed
\* value and an Arc<Mutex<C>> to the parent context, with the typed lookup
\* value<T>() that walks from a node to the root.
EXTENDS Integers, Sequences, FiniteSets, TLC

\* ---------------------------------------------------------------- bounds
MaxCells == 2        \* Arc<Mutex<C>> allocations (one per with_value call)
MaxHandles == 2      \* contexts owned by the program's variables
NumThreads == 2      \* threads that run lookups

Threads == 1..NumThreads

\* ---------------------------------------------------------------- values
\* A stored value is a runtime type (its TypeId) and a payload.
V(ty, p) == [type |-> ty, payload |-> p]
NoVal == V("none", 0)
Values == {V("A", 1), V("A", 2), V("B", 1)}
\* The types a caller may ask for; "String" is never stored.
RequestTypes == {"A", "B", "String"}

\* The values and types used where threads interleave: a lookup can hit at the
\* node, hit at an ancestor, or miss down to the root.
ConcValues == {V("A", 1), V("B", 1)}
ConcTypes == {"A"}

NoDeadline == 0
Deadlines == {7}

\* Option<T>
None == [some |-> FALSE, val |-> NoVal]
Some(v) == [some |-> TRUE, val |-> v]

\* ---------------------------------------------------------------- state
VARIABLES
    cells,      \* cells[i]: the context owned by the i-th Arc<Mutex<C>>
    strong,     \* strong[i]: strong count of the i-th Arc
    lock,       \* lock[i]: the thread that holds the i-th Mutex, 0 when free
    handles,    \* the contexts held in the program's variables
    pc,         \* pc[t]: where thread t is in value<T>()
    req,        \* req[t]: the handle and the type of thread t's lookup
    held,       \* held[t]: the cells whose MutexGuard thread t holds, outermost first
    res,        \* res[t]: the Option<T> thread t's lookup produced
    ret         \* the last return value of deadline(), poll() or a sequential value()

vars == <<cells, strong, lock, handles, pc, req, held, res, ret>>

\* ---------------------------------------------------------------- contexts
\* A root context: no parent and no value.
Root(d) == [kind |-> "root", parent |-> 0, val |-> NoVal, dl |-> d]

\* background(): the root without a deadline.
background == Root(NoDeadline)

\* with_value(parent, val), the parent already moved into cell p.
with_value(p, val) == [kind |-> "wv", parent |-> p, val |-> val, dl |-> NoDeadline]

\* #[derive(Clone)]: Arc::clone of the parent (the same cell), a copy of val.
clone(ctx) == [kind |-> ctx.kind, parent |-> ctx.parent, val |-> ctx.val, dl |-> ctx.dl]

\* Faulty variant of downcast_ref: the cast succeeds without comparing the TypeId.
downcast_ref_unchecked(val, T) == Some(val)

\* val_any.downcast_ref::<T>(): Some exactly when the TypeId of the value is T.
downcast_ref(val, T) == IF val.type = T THEN Some(val) ELSE None

\* Background::value: the root holds nothing.
root_value(ctx, T) == None

\* Faulty variant of value: the parent is asked first, so the farthest match wins.
RECURSIVE value_farthest(_, _)
value_farthest(ctx, T) ==
    IF ctx.kind = "root" THEN root_value(ctx, T)
    ELSE IF value_farthest(cells[ctx.parent], T).some
         THEN value_farthest(cells[ctx.parent], T)
         ELSE downcast_ref(ctx.val, T)

\* Faulty variant of value: a miss at the node is not passed on to the parent.
value_shallow(ctx, T) ==
    IF ctx.kind = "root" THEN root_value(ctx, T)
    ELSE downcast_ref(ctx.val, T)

\* WithValue::value run by one thread with every Mutex free.
RECURSIVE value(_, _)
value(ctx, T) ==
    IF ctx.kind = "root" THEN root_value(ctx, T)
    ELSE IF downcast_ref(ctx.val, T).some
         THEN Some(downcast_ref(ctx.val, T).val)
         ELSE value(cells[ctx.parent], T)

\* Option<Instant>
OptInstant(d) == IF d = NoDeadline THEN None ELSE Some(V("Instant", d))

\* Faulty variant of deadline: the query is passed on to the parent.
RECURSIVE deadline_of_parent(_)
deadline_of_parent(ctx) ==
    IF ctx.kind = "root" THEN OptInstant(ctx.dl)
    ELSE deadline_of_parent(cells[ctx.parent])

\* WithValue::deadline
deadline(ctx) == OptInstant(NoDeadline)

\* The deadline of a root context.
root_deadline(ctx) == OptInstant(ctx.dl)

\* Poll<(), ContextError>: Ok(Async::Ready(())) or Ok(Async::NotReady)
Ok(async) == Some(V(async, 0))

\* Faulty variant of poll: the future completes.
poll_ready(ctx) == Ok("Ready")

\* Future::poll
poll(ctx) == Ok("NotReady")

\* ---------------------------------------------------------------- helpers
Last(s) == s[Len(s)]
Front(s) == SubSeq(s, 1, Len(s) - 1)

Running(t) == pc[t] \in {"lock", "ret"}

\* A lookup borrows its handle (&self) until it returns.
Borrowed(h) == \E t \in Threads : Running(t) /\ req[t].h = h

\* The context thread t is looking at.
Cur(t) == IF held[t] = <<>> THEN handles[req[t].h] ELSE cells[Last(held[t])]

\* Faulty variant of CanLock: a read lock that admits any number of holders.
CanLockShared(c) == TRUE

\* Mutex::lock succeeds only while no guard exists.
CanLock(c) == lock[c] = 0

\* Faulty variant of Unlock: the guard is leaked and the Mutex stays locked.
UnlockLeak(lk, c) == lk

\* Dropping a MutexGuard.
Unlock(lk, c) == [lk EXCEPT ![c] = 0]

\* No call of the thread is borrowing a handle.
NoReq == [op |-> "none", h |-> 0, T |-> "none"]

NoRet == [op |-> "none", self |-> background, T |-> "none", out |-> None]
Returned(op, self, T, out) == [op |-> op, self |-> self, T |-> T, out |-> out]

\* ---------------------------------------------------------------- Init
\* No lookup has been called on the one root context the program starts with.
Fresh(root) ==
    /\ cells = <<>>
    /\ strong = <<>>
    /\ lock = <<>>
    /\ handles = <<root>>
    /\ pc = [t \in Threads |-> "idle"]
    /\ req = [t \in Threads |-> NoReq]
    /\ held = [t \in Threads |-> <<>>]
    /\ res = [t \in Threads |-> None]
    /\ ret = NoRet

\* let ctx = background(); or a root context that reports a deadline.
Init == \E d \in {NoDeadline} \cup Deadlines : Fresh(Root(d))

\* let ctx = background();
ConcInit == Fresh(background)

thr == <<pc, req, held, res>>

\* ---------------------------------------------------------------- construction
\* Faulty variant of WithValue: the new cell holds the new node instead of the parent.
WithValueSelf(h, v) ==
    /\ Len(cells) < MaxCells
    /\ ~Borrowed(h)
    /\ cells' = Append(cells, with_value(Len(cells) + 1, v))
    /\ strong' = Append(strong, 1)
    /\ lock' = Append(lock, 0)
    /\ handles' = [handles EXCEPT ![h] = with_value(Len(cells) + 1, v)]
    /\ UNCHANGED <<thr, ret>>

\* let h = with_value(h, v): the parent is moved into a new Arc<Mutex<C>>.
WithValue(h, v) ==
    /\ Len(cells) < MaxCells
    /\ ~Borrowed(h)
    /\ cells' = Append(cells, handles[h])
    /\ strong' = Append(strong, 1)
    /\ lock' = Append(lock, 0)
    /\ handles' = [handles EXCEPT ![h] = with_value(Len(cells) + 1, v)]
    /\ UNCHANGED <<thr, ret>>

\* Faulty variant of Clone: the parent is copied into a new cell of its own.
CloneDeep(h) ==
    /\ Len(handles) < MaxHandles
    /\ handles[h].kind = "wv"
    /\ cells' = Append(cells, cells[handles[h].parent])
    /\ strong' = Append(strong, 1)
    /\ lock' = Append(lock, 0)
    /\ handles' = Append(handles, with_value(Len(cells) + 1, handles[h].val))
    /\ UNCHANGED <<thr, ret>>

\* let c = h.clone();
Clone(h) ==
    /\ Len(handles) < MaxHandles
    /\ handles[h].kind = "wv"
    /\ handles' = Append(handles, clone(handles[h]))
    /\ strong' = [strong EXCEPT ![clone(handles[h]).parent] = @ + 1]
    /\ UNCHANGED <<cells, lock, thr, ret>>

\* ---------------------------------------------------------------- lookup by a thread
\* What a frame of value<T>() finds at its own node.
Hit(ctx, T) == IF ctx.kind = "root" THEN root_value(ctx, T) ELSE downcast_ref(ctx.val, T)

\* The frame returns without asking the parent.
Stops(ctx, T) == ctx.kind = "root" \/ Hit(ctx, T).some

\* Thread t calls handles[h].value::<T>() and runs it up to the first lock():
\* the match on downcast_ref and, on a miss, self.parent.clone().
Start(t, h, T) ==
    /\ pc[t] = "idle"
    /\ req' = [req EXCEPT ![t] = [op |-> "value", h |-> h, T |-> T]]
    /\ held' = [held EXCEPT ![t] = <<>>]
    /\ IF Stops(handles[h], T)
       THEN /\ res' = [res EXCEPT ![t] = Hit(handles[h], T)]
            /\ pc' = [pc EXCEPT ![t] = "ret"]
            /\ UNCHANGED strong
       ELSE /\ strong' = [strong EXCEPT ![handles[h].parent] = @ + 1]
            /\ pc' = [pc EXCEPT ![t] = "lock"]
            /\ UNCHANGED res
    /\ UNCHANGED <<cells, lock, handles, ret>>

\* The cell thread t is about to lock.
Target(t) == Cur(t).parent

\* Faulty variant of Lock: the parent is taken out of the cell through the guard.
LockAndTake(t) ==
    /\ pc[t] = "lock"
    /\ CanLock(Target(t))
    /\ lock' = [lock EXCEPT ![Target(t)] = t]
    /\ held' = [held EXCEPT ![t] = Append(@, Target(t))]
    /\ res' = [res EXCEPT ![t] = Hit(cells[Target(t)], req[t].T)]
    /\ pc' = [pc EXCEPT ![t] = "ret"]
    /\ cells' = [cells EXCEPT ![Target(t)] = background]
    /\ UNCHANGED <<strong, handles, req, ret>>

\* clone.lock().unwrap(), then parent.value() runs on the parent up to its
\* own lock() or to its result.
Lock(t) ==
    /\ pc[t] = "lock"
    /\ CanLock(Target(t))
    /\ lock' = [lock EXCEPT ![Target(t)] = t]
    /\ held' = [held EXCEPT ![t] = Append(@, Target(t))]
    /\ IF Stops(cells[Target(t)], req[t].T)
       THEN /\ res' = [res EXCEPT ![t] = Hit(cells[Target(t)], req[t].T)]
            /\ pc' = [pc EXCEPT ![t] = "ret"]
            /\ UNCHANGED strong
       ELSE /\ strong' = [strong EXCEPT ![cells[Target(t)].parent] = @ + 1]
            /\ pc' = [pc EXCEPT ![t] = "lock"]
            /\ UNCHANGED res
    /\ UNCHANGED <<cells, handles, req, ret>>

\* One frame returns: its guard is dropped, then its cloned Arc; the outermost
\* frame holds neither and hands the result to the caller.
Return(t) ==
    /\ pc[t] = "ret"
    /\ IF held[t] = <<>>
       THEN /\ pc' = [pc EXCEPT ![t] = "done"]
            /\ req' = [req EXCEPT ![t] = NoReq]
            /\ res' = [res EXCEPT ![t] = None]
            /\ UNCHANGED <<lock, strong, held>>
       ELSE /\ lock' = Unlock(lock, Last(held[t]))
            /\ strong' = [strong EXCEPT ![Last(held[t])] = @ - 1]
            /\ held' = [held EXCEPT ![t] = Front(@)]
            /\ UNCHANGED <<pc, req, res>>
    /\ UNCHANGED <<cells, handles, ret>>

\* Thread t calls handles[h].deadline(); the borrow ends when the call has returned.
DeadlineBy(t, h) ==
    /\ pc[t] = "idle"
    /\ pc' = [pc EXCEPT ![t] = "ret"]
    /\ req' = [req EXCEPT ![t] = [op |-> "deadline", h |-> 0, T |-> "none"]]
    /\ res' = [res EXCEPT ![t] = IF handles[h].kind = "wv" THEN deadline(handles[h])
                                 ELSE root_deadline(handles[h])]
    /\ UNCHANGED <<cells, strong, lock, handles, held, ret>>

\* Thread t calls handles[h].poll(), which needs &mut self.
PollBy(t, h) ==
    /\ pc[t] = "idle"
    /\ handles[h].kind = "wv"
    /\ ~Borrowed(h)
    /\ pc' = [pc EXCEPT ![t] = "ret"]
    /\ req' = [req EXCEPT ![t] = [op |-> "poll", h |-> 0, T |-> "none"]]
    /\ res' = [res EXCEPT ![t] = poll(handles[h])]
    /\ UNCHANGED <<cells, strong, lock, handles, held, ret>>

\* ---------------------------------------------------------------- sequential calls
\* handles[h].value::<T>() run to completion while no other lookup runs.
Value(h, T) ==
    /\ \A t \in Threads : ~Running(t)
    /\ ret' = Returned("value", handles[h], T, value(handles[h], T))
    /\ UNCHANGED <<cells, strong, lock, handles, thr>>

\* handles[h].deadline()
Deadline(h) ==
    /\ ret' = Returned("deadline", handles[h], "none",
                       IF handles[h].kind = "wv" THEN deadline(handles[h])
                       ELSE root_deadline(handles[h]))
    /\ UNCHANGED <<cells, strong, lock, handles, thr>>

\* handles[h].poll()
Poll(h) ==
    /\ handles[h].kind = "wv"
    /\ ~Borrowed(h)
    /\ ret' = Returned("poll", handles[h], "none", poll(handles[h]))
    /\ UNCHANGED <<cells, strong, lock, handles, thr>>

\* ---------------------------------------------------------------- specifications
Build ==
    \/ \E h \in DOMAIN handles, v \in Values : WithValue(h, v)
    \/ \E h \in DOMAIN handles : Clone(h)

Step(t) == Lock(t) \/ Return(t)

\* The API used from one thread.
Next ==
    \/ Build
    \/ \E h \in DOMAIN handles, T \in RequestTypes : Value(h, T)
    \/ \E h \in DOMAIN handles : Deadline(h)
    \/ \E h \in DOMAIN handles : Poll(h)

Spec == Init /\ [][Next]_vars

\* Chains built while threads run lookups on them.
LookupNext ==
    \/ \E h \in DOMAIN handles, v \in ConcValues : WithValue(h, v)
    \/ \E h \in DOMAIN handles : Clone(h)
    \/ \E t \in Threads, h \in DOMAIN handles, T \in ConcTypes : Start(t, h, T)
    \/ \E t \in Threads : Step(t)

\* The same with threads that call deadline() and poll().
ConcNext ==
    \/ LookupNext
    \/ \E t \in Threads, h \in DOMAIN handles : DeadlineBy(t, h)
    \/ \E t \in Threads, h \in DOMAIN handles : PollBy(t, h)

ConcSpec == ConcInit /\ [][ConcNext]_vars

\* Every thread that can take a step of its lookup eventually takes it.
FairSpec == ConcInit /\ [][LookupNext]_vars /\ \A t \in Threads : WF_vars(Step(t))

\* ---------------------------------------------------------------- chain structure
Range(s) == {s[i] : i \in DOMAIN s}
Min(S) == CHOOSE x \in S : \A y \in S : x <= y

\* The nodes from ctx towards the root, following at most n parent links.
RECURSIVE PathFrom(_, _)
PathFrom(ctx, n) ==
    IF ctx.kind = "root" \/ n = 0 THEN <<ctx>>
    ELSE <<ctx>> \o PathFrom(cells[ctx.parent], n - 1)

Path(ctx) == PathFrom(ctx, Len(cells))

\* The positions on the path of ctx whose stored value has type T.
Holders(ctx, T) ==
    {i \in DOMAIN Path(ctx) : Path(ctx)[i].kind = "wv" /\ Path(ctx)[i].val.type = T}

\* The value of type T stored nearest to ctx, if any.
Nearest(ctx, T) ==
    IF Holders(ctx, T) = {} THEN None ELSE Some(Path(ctx)[Min(Holders(ctx, T))].val)

\* The cells reached from ctx by following at most n parent links.
RECURSIVE CellsFrom(_, _)
CellsFrom(ctx, n) ==
    IF ctx.kind = "root" \/ n = 0 THEN {}
    ELSE {ctx.parent} \cup CellsFrom(cells[ctx.parent], n - 1)

IsValueNode(ctx) == ctx.kind = "wv"

\* ---------------------------------------------------------------- claims
\* C1: a lookup for T returns the value of the nearest node on the path (the
\* node itself first) that stores a T, never an ancestor's value of that type.
C1_ShadowingByRecency ==
    (ret.op = "value" /\ Holders(ret.self, ret.T) # {})
        => ret.out = Some(Path(ret.self)[Min(Holders(ret.self, ret.T))].val)

\* A lookup ran on a chain with two values of the requested type and different payloads.
C1_Witness ==
    /\ ret.op = "value"
    /\ \E i, j \in Holders(ret.self, ret.T) :
          i < j /\ Path(ret.self)[i].val # Path(ret.self)[j].val

\* C2: a lookup for a type other than the node's own type returns what the
\* parent returns for it, a lookup for the node's own type returns the node's
\* value, and the result always has the requested type, whatever the payloads are.
C2_ExactTypeDelegation ==
    /\ (ret.op = "value" /\ IsValueNode(ret.self) /\ ret.T # ret.self.val.type)
          => ret.out = Nearest(cells[ret.self.parent], ret.T)
    /\ (ret.op = "value" /\ IsValueNode(ret.self) /\ ret.T = ret.self.val.type)
          => ret.out = Some(ret.self.val)
    /\ (ret.op = "value" /\ ret.out.some) => ret.out.val.type = ret.T

\* A lookup for A on a node holding B(1) resolved to the ancestor's A(1).
C2_Witness ==
    /\ ret.op = "value"
    /\ IsValueNode(ret.self)
    /\ ret.self.val = V("B", 1)
    /\ ret.T = "A"
    /\ ret.out = Some(V("A", 1))

\* C3: a lookup returns None exactly when no node on the path stores a value
\* of the requested type; on a root it always returns None; the result is
\* always an Option, never a failure.
C3_AbsenceIsNone ==
    ret.op = "value" =>
        /\ (ret.out = None) <=> (Holders(ret.self, ret.T) = {})
        /\ ret.self.kind = "root" => ret.out = None
        /\ ret.out = None \/ (ret.out.some /\ ret.out.val \in Values)

\* A lookup on a chain of two value nodes, for a type none of them stores, returned None.
C3_Witness ==
    /\ ret.op = "value"
    /\ ret.out = None
    /\ Len(Path(ret.self)) >= 3

\* A step that returns a value node in a new handle: a clone.
CloneStep ==
    /\ Len(handles') = Len(handles) + 1
    /\ IsValueNode(handles'[Len(handles')])

\* C4: the clone holds the same value and the same parent cell as the original
\* (no cell is allocated or copied, the Arc gains one owner), and a lookup on a
\* node gives what the lookup gives on every live clone of it, also later on.
C4_CloneShares ==
    /\ [][CloneStep =>
            /\ \E h \in DOMAIN handles :
                  /\ IsValueNode(handles[h])
                  /\ handles'[Len(handles')].val = handles[h].val
                  /\ handles'[Len(handles')].parent = handles[h].parent
                  /\ strong'[handles[h].parent] = strong[handles[h].parent] + 1
            /\ cells' = cells
            /\ \A h \in DOMAIN handles : handles'[h] = handles[h]]_vars
    /\ [](ret.op = "value" =>
            \A h \in DOMAIN handles :
                (IsValueNode(handles[h]) /\ IsValueNode(ret.self)
                    /\ handles[h].parent = ret.self.parent)
                => /\ handles[h].val = ret.self.val
                   /\ Nearest(handles[h], ret.T) = ret.out)

\* A lookup returned a value on a node of which two handles (original and clone) are alive.
C4_Witness ==
    /\ ret.op = "value"
    /\ ret.out.some
    /\ \E h1, h2 \in DOMAIN handles :
          /\ h1 # h2
          /\ IsValueNode(handles[h1])
          /\ handles[h1] = ret.self
          /\ IsValueNode(handles[h2])
          /\ handles[h2].parent = handles[h1].parent
          /\ strong[handles[h1].parent] >= 2

\* C7: deadline() on a value node is None, whatever the deadline of its root.
C7_NoDeadline ==
    (ret.op = "deadline" /\ IsValueNode(ret.self)) => ret.out = None

\* deadline() was called on a value node whose root has a deadline.
C7_Witness ==
    /\ ret.op = "deadline"
    /\ IsValueNode(ret.self)
    /\ Path(ret.self)[Len(Path(ret.self))].dl \in Deadlines

\* C8: poll always returns Ok(NotReady) and changes no node, count or lock.
C8_NeverReady ==
    /\ [](ret.op = "poll" => ret.out = Ok("NotReady"))
    /\ [][(ret'.op = "poll" /\ ret' # ret) =>
            /\ handles' = handles
            /\ cells' = cells
            /\ strong' = strong
            /\ lock' = lock]_vars

\* poll was called on a node of a chain of two value nodes of which a clone exists.
C8_Witness ==
    /\ ret.op = "poll"
    /\ Len(Path(ret.self)) >= 3
    /\ \E h \in DOMAIN handles :
          IsValueNode(handles[h]) /\ strong[handles[h].parent] >= 2

\* The threads whose lookup holds the guard of cell c.
Inside(c) == {t \in Threads : c \in Range(held[t])}

\* Thread t's lookup has its result.
HasResult(t) == pc[t] = "ret" /\ req[t].op = "value"

\* C5: under every interleaving a lookup returns what it returns when it runs
\* alone, and every lookup that has started eventually returns.
C5_ConcurrentLookups ==
    /\ [](\A t \in Threads :
            HasResult(t) => res[t] = value(handles[req[t].h], req[t].T))
    /\ \A t \in Threads : Running(t) ~> (pc[t] = "done")

\* One lookup is about to return a value found at an ancestor while another
\* one, started on a clone, holds the guard of the parent cell both go through.
C5_Witness ==
    \E t1, t2 \in Threads :
        /\ t1 # t2
        /\ HasResult(t1)
        /\ held[t1] = <<>>
        /\ res[t1].some
        /\ res[t1].val # handles[req[t1].h].val
        /\ req[t2].op = "value"
        /\ req[t2].h # req[t1].h
        /\ held[t2] # <<>>
        /\ held[t2][1] = handles[req[t1].h].parent
        /\ strong[held[t2][1]] >= 3

\* C6 as stated: a lookup that is about to enter a parent can always enter it,
\* also while another lookup is inside that parent.
C6_SharedEntry ==
    \A t \in Threads : pc[t] = "lock" => ENABLED Lock(t)

\* C6 amended: at most one lookup is inside a parent cell at a time, and a
\* lookup that arrives at a cell another lookup is inside cannot enter it
\* before that lookup has returned from the cell.
C6_ExclusiveEntry ==
    /\ \A c \in DOMAIN cells : Cardinality(Inside(c)) <= 1
    /\ \A c \in DOMAIN cells : lock[c] # 0 <=> Inside(c) = {lock[c]}
    /\ \A t \in Threads :
          (pc[t] = "lock" /\ Inside(Target(t)) # {}) => ~ENABLED Lock(t)

\* A lookup started through a clone waits for the parent another lookup is inside.
C6_Witness ==
    \E t1, t2 \in Threads :
        /\ t1 # t2
        /\ req[t1].h # req[t2].h
        /\ pc[t2] = "lock"
        /\ Target(t2) \in Range(held[t1])

\* C9: no step changes the node stored in a cell or in a handle (with_value
\* moves the handle's node unchanged into the new cell); a guard is held only
\* by a lookup that is inside the cell, and a lookup that has returned holds none.
C9_Immutable ==
    /\ [][/\ Len(cells') >= Len(cells)
          /\ \A i \in DOMAIN cells : cells'[i] = cells[i]
          /\ Len(handles') >= Len(handles)
          /\ \A h \in DOMAIN handles :
                \/ handles'[h] = handles[h]
                \/ /\ Len(cells') = Len(cells) + 1
                   /\ cells'[Len(cells')] = handles[h]
                   /\ handles'[h].parent = Len(cells')]_vars
    /\ [](\A t \in Threads :
            /\ pc[t] \in {"idle", "done"} => held[t] = <<>>
            /\ \A c \in DOMAIN cells : lock[c] = t <=> c \in Range(held[t]))

\* A lookup that went through two parent cells down to the root is about to
\* return, a poll has been made, and no guard is left.
C9_Witness ==
    \E t1, t2 \in Threads :
        /\ HasResult(t1)
        /\ held[t1] = <<>>
        /\ Len(Path(handles[req[t1].h])) >= 3
        /\ Holders(handles[req[t1].h], req[t1].T) = {}
        /\ req[t2].op = "poll"
        /\ \A c \in DOMAIN cells : lock[c] = 0

\* The nodes of the program: those in handles and those in cells.
Nodes == Range(handles) \cup Range(cells)

\* C10: with_value can wrap every context that is not borrowed, every parent
\* link points to an existing cell, no cell is reached from the node it
\* stores, every path ends at a root, and a lookup holds each cell of its path
\* at most once.
C10_Acyclic ==
    /\ \A h \in DOMAIN handles, v \in ConcValues :
          (Len(cells) < MaxCells /\ ~Borrowed(h)) => ENABLED WithValue(h, v)
    /\ \A n \in Nodes : IsValueNode(n) => n.parent \in DOMAIN cells
    /\ \A c \in DOMAIN cells : c \notin CellsFrom(cells[c], Len(cells))
    /\ \A n \in Nodes : Path(n)[Len(Path(n))].kind = "root"
    /\ \A t \in Threads :
          /\ Cardinality(Range(held[t])) = Len(held[t])
          /\ Len(held[t]) <= Len(cells)

\* A lookup has walked a chain of two value nodes down to the root.
C10_Witness ==
    \E t \in Threads :
        /\ Len(held[t]) = 2
        /\ cells[held[t][2]].kind = "root"
====
